---- MODULE Spec2Model ----
(***************************************************************************)
(* Delivery-zone resolution of the marketplace backend.                    *)
(*                                                                         *)
(* The model follows src/routes/stores.js: the store document with its     *)
(* settings.shipping.zones list and version, the two write routes that     *)
(* replace the zone list (PUT /stores/:id and PATCH                        *)
(* /stores/:id/delivery-zones) and POST /stores/:id/validate-delivery,     *)
(* which resolves a delivery query against the stored zones.               *)
(* POST /stores stores the settings of its body as they are, so a store    *)
(* starts with any zone list.                                              *)
(* Requests in flight together (inflight), the reference scenario of the   *)
(* scripts and GET /products/nearby of src/routes/products.js, which reads  *)
(* the sellers and products (market), have specifications of their own.     *)
(*                                                                         *)
(* Conventions.                                                            *)
(*  - A JavaScript value that may be undefined is a set: {} is undefined    *)
(*    (or null), {v} is the value v.                                       *)
(*  - A string that the code lower-cases is a sequence of character codes.  *)
(*  - Coordinates are integers in units of 1e-6 degree; distances, radii    *)
(*    and the reported distance are integers in metres (0.001 km), so the   *)
(*    source's rounding to 2 decimals of a kilometre is rounding to a       *)
(*    multiple of 10.                                                      *)
(*  - The persistence layer stores a document as the handler assigned it.   *)
(***************************************************************************)
EXTENDS Integers, Sequences, FiniteSets, TLC

VARIABLES store, req, res, inflight, market

vars == <<store, req, res, inflight, market>>

(***************************************************************************)
(* Bounds of the model.                                                    *)
(***************************************************************************)
\* longest zone list a store is created with
MaxZones == 3
\* longest zone list a write request (PUT, PATCH) carries
MaxWriteZones == 2
\* store.version is capped: a write is modelled only while version < MaxVersion
MaxVersion == 2

(***************************************************************************)
(* JavaScript values.                                                      *)
(***************************************************************************)
Undefined == {}

Some(v) == {v}

ValueOf(m) == CHOOSE v \in m : TRUE

\* Character codes of the state names used by requests and zones.
Rivers == <<82, 105, 118, 101, 114, 115>>

rivers == <<114, 105, 118, 101, 114, 115>>

RIVERS == <<82, 73, 86, 69, 82, 83>>

Lagos == <<76, 97, 103, 111, 115>>

EmptyString == <<>>

\* String.prototype.toLowerCase on the ASCII range
toLowerCase(s) == [i \in 1..Len(s) |-> IF s[i] \in 65..90 THEN s[i] + 32 ELSE s[i]]

\* truthiness of an optional string: undefined and "" are falsy
TruthyString(m) == m # Undefined /\ ValueOf(m) # EmptyString

\* truthiness of an optional number: undefined and 0 are falsy
TruthyNumber(m) == m # Undefined /\ ValueOf(m) # 0

(***************************************************************************)
(* Coordinates and the Haversine distance.                                 *)
(***************************************************************************)
\* seller location used by scripts/setupTestStore.js (lat 4.8156, lon 7.0134)
PortHarcourt == [latitude |-> 4815600, longitude |-> 7013400]

\* due north of PortHarcourt, 50.000 km away
North50 == [latitude |-> 5265261, longitude |-> 7013400]

\* due north of PortHarcourt, 50.004 km away
North50p == [latitude |-> 5265297, longitude |-> 7013400]

\* due north of PortHarcourt, 50.005 km away: reported as 50.01 km
North50h == [latitude |-> 5265306, longitude |-> 7013400]

\* customer of scripts/checkSellerDelivery.js (lat 4.9134, lon 6.2932)
Buyer == [latitude |-> 4913400, longitude |-> 6293200]

Points == {PortHarcourt, North50, North50p, North50h, Buyer}

\* R * c of calculateDistance for every pair of Points, in metres; the values
\* are those the source's formula yields (R = 6371 km), to the nearest metre.
HaversineMetres ==
    <<4815600, 7013400, 4815600, 7013400>> :> 0 @@
    <<4815600, 7013400, 5265261, 7013400>> :> 50000 @@
    <<4815600, 7013400, 5265297, 7013400>> :> 50004 @@
    <<4815600, 7013400, 5265306, 7013400>> :> 50005 @@
    <<4815600, 7013400, 4913400, 6293200>> :> 80532 @@
    <<5265261, 7013400, 4815600, 7013400>> :> 50000 @@
    <<5265261, 7013400, 5265261, 7013400>> :> 0 @@
    <<5265261, 7013400, 5265297, 7013400>> :> 4 @@
    <<5265261, 7013400, 5265306, 7013400>> :> 5 @@
    <<5265261, 7013400, 4913400, 6293200>> :> 88845 @@
    <<5265297, 7013400, 4815600, 7013400>> :> 50004 @@
    <<5265297, 7013400, 5265261, 7013400>> :> 4 @@
    <<5265297, 7013400, 5265297, 7013400>> :> 0 @@
    <<5265297, 7013400, 5265306, 7013400>> :> 1 @@
    <<5265297, 7013400, 4913400, 6293200>> :> 88847 @@
    <<5265306, 7013400, 4815600, 7013400>> :> 50005 @@
    <<5265306, 7013400, 5265261, 7013400>> :> 5 @@
    <<5265306, 7013400, 5265297, 7013400>> :> 1 @@
    <<5265306, 7013400, 5265306, 7013400>> :> 0 @@
    <<5265306, 7013400, 4913400, 6293200>> :> 88848 @@
    <<4913400, 6293200, 4815600, 7013400>> :> 80532 @@
    <<4913400, 6293200, 5265261, 7013400>> :> 88845 @@
    <<4913400, 6293200, 5265297, 7013400>> :> 88847 @@
    <<4913400, 6293200, 5265306, 7013400>> :> 88848 @@
    <<4913400, 6293200, 4913400, 6293200>> :> 0

calculateDistance(lat1, lon1, lat2, lon2) == HaversineMetres[<<lat1, lon1, lat2, lon2>>]

\* variant: Math.floor(distance * 100) / 100
roundDistanceDown(distance) == (distance \div 10) * 10

\* Math.round(distance * 100) / 100 on a distance in metres: half-up to 10 m
roundDistance(distance) == ((distance + 5) \div 10) * 10

(***************************************************************************)
(* Delivery zones.                                                         *)
(***************************************************************************)
\* A zone as a request body or the store document holds it.  name,
\* estimatedDays, isActive, states, location and radius may be undefined.
Zone(id, deliveryType, cost, isActive, states, location, radius) ==
    [id |-> id, name |-> Some(id), deliveryType |-> deliveryType, cost |-> cost,
     estimatedDays |-> Some("1-2 days"), isActive |-> isActive,
     states |-> states, location |-> location, radius |-> radius]

\* The zones of scripts/setupTestStore.js, variants of them that differ in
\* isActive and cost, and the malformed or unknown zones a write can store.
ZoneCatalog ==
    { Zone("rivers", "state-based", 1500, Some(TRUE), Some(<<Rivers>>), Undefined, Undefined),
      Zone("west", "state-based", 1000, Undefined, Some(<<Lagos, RIVERS>>), Undefined, Undefined),
      Zone("rivers-off", "state-based", 1000, Some(FALSE), Some(<<Rivers>>), Undefined, Undefined),
      Zone("nearby", "radius-based", 1000, Some(TRUE), Undefined, Some(PortHarcourt), Some(50000)),
      Zone("extended", "radius-based", 2000, Undefined, Undefined, Some(PortHarcourt), Some(100000)),
      Zone("extended-off", "radius-based", 1500, Some(FALSE), Undefined, Some(PortHarcourt), Some(100000)),
      Zone("no-states", "state-based", 1500, Some(TRUE), Undefined, Undefined, Undefined),
      Zone("empty-states", "state-based", 1000, Some(TRUE), Some(<<>>), Undefined, Undefined),
      Zone("no-location", "radius-based", 1000, Some(TRUE), Undefined, Undefined, Some(50000)),
      Zone("no-radius", "radius-based", 1500, Some(TRUE), Undefined, Some(PortHarcourt), Undefined),
      Zone("zero-radius", "radius-based", 1000, Some(TRUE), Undefined, Some(PortHarcourt), Some(0)),
      Zone("pickup", "pickup", 1000, Some(TRUE), Undefined, Undefined, Undefined) }

\* every zone list of at most MaxZones catalog zones
ZoneLists == UNION {[1..n -> ZoneCatalog] : n \in 0..MaxZones}

\* The query fields of a validate-delivery body.
QueryLocations == {Undefined} \cup {Some(p) : p \in Points}

QueryStates == {Undefined, Some(EmptyString), Some(rivers), Some(Lagos)}

(***************************************************************************)
(* The store document and the requests.                                    *)
(***************************************************************************)
StoreId == "store1"

\* ids a request may carry in :id
RequestIds == {StoreId, "unknown"}

Owner == "seller1"

\* authenticated sellers
Sellers == {Owner, "seller2"}

\* authenticated users: the sellers, an administrator and a buyer
Users == Sellers \cup {"admin1", "buyer1"}

\* req.user.type
userType(user) ==
    IF user \in Sellers THEN "seller"
    ELSE IF user = "admin1" THEN "admin" ELSE "buyer"

\* restrictTo(...roles): the request goes on to the handler when the type of
\* the authenticated user is one of roles, and is answered 403 otherwise
restrictTo(roles, user) == userType(user) \in roles

NoRequest == [route |-> "none"]

NoResponse == [route |-> "none"]

\* the JSON answer of a handler; data is undefined on an error answer
Response(route, status, data) ==
    [route |-> route, status |-> status, success |-> (status = 200), data |-> data]

\* the answer of a route whose middleware turned the request down
denied(s, route) == [store |-> s, res |-> Response(route, 403, Undefined)]

\* store.settings?.shipping?.zones || []
storedZones(s) == IF s.shipping = Undefined THEN <<>> ELSE ValueOf(s.shipping).zones

(***************************************************************************)
(* POST /stores/:id/validate-delivery.                                     *)
(***************************************************************************)
\* variant: zones.filter(zone => zone.isActive === true)
isActiveZoneStrict(zone) == zone.isActive = Some(TRUE)

\* zones.filter(zone => zone.isActive !== false)
isActiveZone(zone) == zone.isActive # Some(FALSE)

\* variant: the state branch is taken for a zone of any type, if (state)
takesStateBranchAnyType(zone, state) == TruthyString(state)

\* zone.deliveryType === 'state-based' && state
takesStateBranch(zone, state) ==
    zone.deliveryType = "state-based" /\ TruthyString(state)

\* variant: the branch is chosen by the query, if (state) ... else if (location)
takesRadiusBranchByQuery(zone, location, state) ==
    /\ ~TruthyString(state)
    /\ zone.deliveryType = "radius-based"
    /\ location # Undefined

\* else if (zone.deliveryType === 'radius-based' && location)
takesRadiusBranch(zone, location, state) ==
    /\ ~takesStateBranch(zone, state)
    /\ zone.deliveryType = "radius-based"
    /\ location # Undefined

\* variant: zoneState === state
stateEqualsExact(zoneState, state) == zoneState = state

\* zoneState.toLowerCase() === state.toLowerCase()
stateEquals(zoneState, state) == toLowerCase(zoneState) = toLowerCase(state)

\* variant: zone.states.every(zoneState => ...)
stateMatchesEvery(zone, state) ==
    \A i \in 1..Len(ValueOf(zone.states)) :
        toLowerCase(ValueOf(zone.states)[i]) = toLowerCase(ValueOf(state))

\* zone.states.some(zoneState => ...), zone.states being an array
stateMatches(zone, state) ==
    \E i \in 1..Len(ValueOf(zone.states)) :
        stateEquals(ValueOf(zone.states)[i], ValueOf(state))

\* variant: the rounded distance is compared
withinRadiusRounded(distance, radius) ==
    radius # Undefined /\ ((distance + 5) \div 10) * 10 <= ValueOf(radius)

\* distance <= zone.radius; a comparison with undefined is false
withinRadius(distance, radius) == radius # Undefined /\ distance <= ValueOf(radius)

\* { ...zone, distance: Math.round(distance * 100) / 100 }
withDistance(zone, distance) ==
    [id |-> zone.id, name |-> zone.name, deliveryType |-> zone.deliveryType,
     cost |-> zone.cost, estimatedDays |-> zone.estimatedDays,
     isActive |-> zone.isActive, states |-> zone.states,
     location |-> zone.location, radius |-> zone.radius,
     distance |-> roundDistance(distance)]

\* The for loop over activeZones.  Reading a property of undefined
\* (zone.states.some, zone.location.latitude) throws a TypeError, which ends
\* the loop: threw is TRUE and the handler's catch block answers.
RECURSIVE matchZones(_, _, _, _, _)
matchZones(activeZones, location, state, i, availableZones) ==
    IF i > Len(activeZones)
    THEN [threw |-> FALSE, availableZones |-> availableZones]
    ELSE LET zone == activeZones[i] IN
         IF takesStateBranch(zone, state)
         THEN IF zone.states = Undefined
              THEN [threw |-> TRUE, availableZones |-> availableZones]
              ELSE IF stateMatches(zone, state)
                   THEN matchZones(activeZones, location, state, i + 1,
                                   Append(availableZones, zone))
                   ELSE matchZones(activeZones, location, state, i + 1, availableZones)
         ELSE IF takesRadiusBranch(zone, location, state)
         THEN IF zone.location = Undefined
              THEN [threw |-> TRUE, availableZones |-> availableZones]
              ELSE LET distance == calculateDistance(ValueOf(location).latitude,
                                                     ValueOf(location).longitude,
                                                     ValueOf(zone.location).latitude,
                                                     ValueOf(zone.location).longitude)
                   IN IF withinRadius(distance, zone.radius)
                      THEN matchZones(activeZones, location, state, i + 1,
                                      Append(availableZones, withDistance(zone, distance)))
                      ELSE matchZones(activeZones, location, state, i + 1, availableZones)
         ELSE matchZones(activeZones, location, state, i + 1, availableZones)

\* variant: the comparator (a, b) => b.cost - a.cost
compareCostDescending(a, b) == b.cost - a.cost

\* the comparator (a, b) => a.cost - b.cost
compareCost(a, b) == a.cost - b.cost

\* variant: an unstable sort, an element goes before the elements it equals
RECURSIVE insertSortedUnstable(_, _)
insertSortedUnstable(sorted, x) ==
    IF sorted = <<>> THEN <<x>>
    ELSE IF sorted[Len(sorted)].cost - x.cost < 0
         THEN Append(sorted, x)
         ELSE Append(insertSortedUnstable(SubSeq(sorted, 1, Len(sorted) - 1), x),
                     sorted[Len(sorted)])

\* Array.prototype.sort is stable: an element goes after every element that
\* does not compare greater than it.
RECURSIVE insertSorted(_, _)
insertSorted(sorted, x) ==
    IF sorted = <<>> THEN <<x>>
    ELSE IF compareCost(sorted[Len(sorted)], x) <= 0
         THEN Append(sorted, x)
         ELSE Append(insertSorted(SubSeq(sorted, 1, Len(sorted) - 1), x),
                     sorted[Len(sorted)])

RECURSIVE sortFrom(_, _, _)
sortFrom(zones, i, sorted) ==
    IF i > Len(zones) THEN sorted
    ELSE sortFrom(zones, i + 1, insertSorted(sorted, zones[i]))

\* availableZones.sort((a, b) => a.cost - b.cost)
sort(zones) == sortFrom(zones, 1, <<>>)

\* variant: the last element is taken
cheapestOfLast(availableZones) ==
    IF availableZones = <<>> THEN Undefined
    ELSE Some(availableZones[Len(availableZones)])

\* availableZones[0] || null
cheapestOf(availableZones) ==
    IF availableZones = <<>> THEN Undefined ELSE Some(availableZones[1])

\* the data object of the 200 answer
deliveryData(availableZones) ==
    [available |-> Len(availableZones) > 0,
     zones |-> availableZones,
     cheapestOption |-> cheapestOf(availableZones)]

\* The handler's answer for the store document s.
validateDelivery(s, id, location, state) ==
    IF id # s.id
    THEN Response("validate-delivery", 404, Undefined)
    ELSE LET zones == storedZones(s)
             activeZones == SelectSeq(zones, isActiveZone)
             matched == matchZones(activeZones, location, state, 1, <<>>)
         IN IF matched.threw
            THEN Response("validate-delivery", 500, Undefined)
            ELSE Response("validate-delivery", 200,
                          Some(deliveryData(sort(matched.availableZones))))

\* variant: the handler sorts the stored array itself and saves the document
ValidateDeliverySaving(id, location, state) ==
    /\ res = NoResponse
    /\ req' = [route |-> "validate-delivery", id |-> id,
               location |-> location, state |-> state]
    /\ res' = validateDelivery(store, id, location, state)
    /\ UNCHANGED <<inflight, market>>
    /\ store' = IF id = store.id /\ store.shipping # Undefined
                THEN [store EXCEPT !.shipping =
                         Some([ValueOf(@) EXCEPT !.zones = sort(@)])]
                ELSE store

\* The handler reads the store and answers; it assigns nothing to the document
\* and does not save it.
ValidateDelivery(id, location, state) ==
    /\ res = NoResponse
    /\ req' = [route |-> "validate-delivery", id |-> id,
               location |-> location, state |-> state]
    /\ res' = validateDelivery(store, id, location, state)
    /\ UNCHANGED <<store, inflight, market>>

(***************************************************************************)
(* PATCH /stores/:id/delivery-zones.                                       *)
(***************************************************************************)
\* !zone.name || !zone.cost || !zone.estimatedDays
lacksBasics(zone) ==
    zone.name = Undefined \/ zone.cost = 0 \/ zone.estimatedDays = Undefined

\* a radius-based zone with !zone.location || !zone.radius
lacksRadiusFields(zone) ==
    /\ zone.deliveryType = "radius-based"
    /\ (zone.location = Undefined \/ ~TruthyNumber(zone.radius))

\* a state-based zone with !zone.states || zone.states.length === 0
lacksStates(zone) ==
    /\ zone.deliveryType = "state-based"
    /\ (zone.states = Undefined \/ Len(ValueOf(zone.states)) = 0)

\* the validation loop answers 400 at the first zone that fails a test
zonesAreValid(zones) ==
    \A i \in 1..Len(zones) :
        ~lacksBasics(zones[i]) /\ ~lacksRadiusFields(zones[i]) /\ ~lacksStates(zones[i])

\* store.settings.shipping.zones = zones, creating shipping when it is missing
withZones(s, zones) ==
    [s EXCEPT !.shipping =
        IF s.shipping = Undefined
        THEN Some([enabled |-> TRUE, zones |-> zones])
        ELSE Some([ValueOf(s.shipping) EXCEPT !.zones = zones])]

\* variant: the handler does not compare store.seller with req.user.id
updateDeliveryZonesByAnyone(s, user, id, zones) ==
    IF id # s.id
    THEN [store |-> s, res |-> Response("delivery-zones", 404, Undefined)]
    ELSE IF zones = Undefined \/ ~zonesAreValid(ValueOf(zones))
    THEN [store |-> s, res |-> Response("delivery-zones", 400, Undefined)]
    ELSE LET saved == [withZones(s, ValueOf(zones)) EXCEPT !.version = @ + 1]
         IN [store |-> saved,
             res |-> Response("delivery-zones", 200, Some(storedZones(saved)))]

\* The handler: the store document it saves and its answer.  zones is the
\* body's zones field, undefined when the body carries no array.
updateDeliveryZones(s, user, id, zones) ==
    IF id # s.id
    THEN [store |-> s, res |-> Response("delivery-zones", 404, Undefined)]
    ELSE IF s.seller # user
    THEN [store |-> s, res |-> Response("delivery-zones", 403, Undefined)]
    ELSE IF zones = Undefined
    THEN [store |-> s, res |-> Response("delivery-zones", 400, Undefined)]
    ELSE IF ~zonesAreValid(ValueOf(zones))
    THEN [store |-> s, res |-> Response("delivery-zones", 400, Undefined)]
    ELSE LET saved == [withZones(s, ValueOf(zones)) EXCEPT !.version = @ + 1]
         IN [store |-> saved,
             res |-> Response("delivery-zones", 200, Some(storedZones(saved)))]

\* variant: the handler assigns and saves the zones before it validates them
UpdateDeliveryZonesSavingFirst(user, id, zones) ==
    LET done == IF restrictTo({"seller"}, user)
                THEN updateDeliveryZones(store, user, id, zones)
                ELSE denied(store, "delivery-zones")
    IN /\ res = NoResponse
       /\ store.version < MaxVersion
       /\ req' = [route |-> "delivery-zones", id |-> id, user |-> user]
       /\ store' = IF done.res.status = 400 /\ zones # Undefined
                   THEN [store EXCEPT !.shipping =
                            Some([enabled |-> TRUE, zones |-> ValueOf(zones)])]
                   ELSE done.store
       /\ res' = done.res
       /\ UNCHANGED <<inflight, market>>

\* router.patch('/:id/delivery-zones', protect, restrictTo('seller'), handler)
UpdateDeliveryZones(user, id, zones) ==
    LET done == IF restrictTo({"seller"}, user)
                THEN updateDeliveryZones(store, user, id, zones)
                ELSE denied(store, "delivery-zones")
    IN /\ res = NoResponse
       /\ store.version < MaxVersion
       /\ req' = [route |-> "delivery-zones", id |-> id, user |-> user]
       /\ store' = done.store
       /\ res' = done.res
       /\ UNCHANGED <<inflight, market>>

(***************************************************************************)
(* GET /stores/:id/delivery-zones.                                         *)
(***************************************************************************)
getDeliveryZones(s, id) ==
    IF id # s.id
    THEN Response("get-delivery-zones", 404, Undefined)
    ELSE Response("get-delivery-zones", 200, Some(storedZones(s)))

GetDeliveryZones(id) ==
    /\ res = NoResponse
    /\ req' = [route |-> "get-delivery-zones", id |-> id]
    /\ res' = getDeliveryZones(store, id)
    /\ UNCHANGED <<store, inflight, market>>

(***************************************************************************)
(* PUT /stores/:id.                                                        *)
(***************************************************************************)
\* store.settings = { ...store.settings.toObject(), ...settings }: a body
\* whose settings carry shipping replaces the stored shipping unvalidated.
mergeSettings(s, settings) ==
    IF settings = Undefined \/ ValueOf(settings).shipping = Undefined
    THEN s
    ELSE [s EXCEPT !.shipping = ValueOf(settings).shipping]

updateStore(s, user, id, settings) ==
    IF id # s.id
    THEN [store |-> s, res |-> Response("update-store", 404, Undefined)]
    ELSE IF s.seller # user /\ userType(user) # "admin"
    THEN [store |-> s, res |-> Response("update-store", 403, Undefined)]
    ELSE LET saved == [mergeSettings(s, settings) EXCEPT !.version = @ + 1]
         IN [store |-> saved, res |-> Response("update-store", 200, Some(saved))]

\* router.put('/:id', protect, restrictTo('seller'), handler)
UpdateStore(user, id, settings) ==
    LET done == IF restrictTo({"seller"}, user)
                THEN updateStore(store, user, id, settings)
                ELSE denied(store, "update-store")
    IN /\ res = NoResponse
       /\ store.version < MaxVersion
       /\ req' = [route |-> "update-store", id |-> id, user |-> user]
       /\ store' = done.store
       /\ res' = done.res
       /\ UNCHANGED <<inflight, market>>

\* the shipping settings a POST /stores body may carry
SettingsBodies ==
    {Undefined} \cup
    {Some([shipping |-> Some([enabled |-> TRUE, zones |-> zs])]) : zs \in ZoneLists}

\* The zones a write request draws from: the first two zones of
\* scripts/setupTestStore.js, a zone the PATCH validation turns down, a zone
\* of cost 0 and a zone of negative cost and negative radius.
WriteCatalog ==
    { Zone("rivers", "state-based", 1500, Some(TRUE), Some(<<Rivers>>), Undefined, Undefined),
      Zone("nearby", "radius-based", 1000, Some(TRUE), Undefined, Some(PortHarcourt), Some(50000)),
      Zone("no-location", "radius-based", 1000, Some(TRUE), Undefined, Undefined, Some(50000)),
      Zone("free", "state-based", 0, Some(TRUE), Some(<<Rivers>>), Undefined, Undefined),
      Zone("negative", "radius-based", -500, Some(TRUE), Undefined, Some(PortHarcourt), Some(-1000)) }

\* every zone list of at most MaxWriteZones zones of the write catalog
WriteLists == UNION {[1..n -> WriteCatalog] : n \in 0..MaxWriteZones}

\* the settings a PUT body may carry
WriteSettingsBodies ==
    {Undefined} \cup
    {Some([shipping |-> Some([enabled |-> TRUE, zones |-> zs])]) : zs \in WriteLists}

\* the zones a PATCH body may carry
ZonesBodies == {Undefined} \cup {Some(zs) : zs \in WriteLists}

(***************************************************************************)
(* The specification.                                                      *)
(***************************************************************************)
\* the answer reaches the client; the server takes the next request
Reply ==
    /\ res # NoResponse
    /\ res' = NoResponse
    /\ req' = NoRequest
    /\ UNCHANGED <<store, inflight, market>>

\* POST /stores saves new Store({ ..., seller: req.user.id, settings:
\* settings || {} }): the body's settings are stored unvalidated and version
\* takes its default, 1
createStore(user, settings) ==
    [id |-> StoreId, seller |-> user, version |-> 1,
     shipping |-> IF settings = Undefined THEN Undefined
                  ELSE ValueOf(settings).shipping]

\* the User and Product collections hold no document
NoMarket == [sellers |-> <<>>, products |-> <<>>]

\* clients whose requests the server handles at the same time
Clients == {"c1", "c2"}

\* a client with no request in flight
Idle == [pc |-> "idle"]

\* a store as its owner created it
Init ==
    /\ \E settings \in SettingsBodies : store = createStore(Owner, settings)
    /\ req = NoRequest
    /\ res = NoResponse
    /\ inflight = [c \in Clients |-> Idle]
    /\ market = NoMarket

Next ==
    \/ \E id \in RequestIds, location \in QueryLocations, state \in QueryStates :
          ValidateDelivery(id, location, state)
    \/ Reply

\* zone resolution on a store as it was created
Spec == Init /\ [][Next]_vars

\* a store as its owner created it, with a zone list a write request can carry
InitWrites ==
    /\ \E settings \in WriteSettingsBodies : store = createStore(Owner, settings)
    /\ req = NoRequest
    /\ res = NoResponse
    /\ inflight = [c \in Clients |-> Idle]
    /\ market = NoMarket

NextWrites ==
    \/ \E id \in RequestIds, location \in QueryLocations, state \in QueryStates :
          ValidateDelivery(id, location, state)
    \/ \E id \in RequestIds : GetDeliveryZones(id)
    \/ \E user \in Users, id \in RequestIds, zones \in ZonesBodies :
          UpdateDeliveryZones(user, id, zones)
    \/ \E user \in Users, id \in RequestIds, settings \in WriteSettingsBodies :
          UpdateStore(user, id, settings)
    \/ Reply

\* the read routes together with the routes that replace the zone list
SpecWrites == InitWrites /\ [][NextWrites]_vars

(***************************************************************************)
(* Requests handled at the same time.  A handler runs up to its first      *)
(* await, Store.findById, and gives way; the document the database returns *)
(* is the handler's own copy, and the rest of validate-delivery runs       *)
(* without giving way again.  The PATCH handler gives way once more at     *)
(* store.save(), where its copy of the document is written.                *)
(***************************************************************************)
\* the zone lists the concurrent updates carry
ConcurrentLists ==
    { <<Zone("rivers", "state-based", 1500, Some(TRUE), Some(<<Rivers>>), Undefined, Undefined)>>,
      <<Zone("extended", "radius-based", 2000, Undefined, Undefined, Some(PortHarcourt), Some(100000)),
        Zone("nearby", "radius-based", 1000, Some(TRUE), Undefined, Some(PortHarcourt), Some(50000))>> }

\* the queries the concurrent validate-delivery requests carry
ConcurrentQueries ==
    { [location |-> Some(PortHarcourt), state |-> Some(rivers)],
      [location |-> Some(Buyer), state |-> Undefined] }

\* await Store.findById(req.params.id): the document as it is stored now
findById(id) == IF id = store.id THEN Some(store) ELSE Undefined

\* validate-delivery up to its await
LoadForValidate(c, id, query) ==
    /\ inflight[c] = Idle
    /\ inflight' = [inflight EXCEPT ![c] =
          [pc |-> "loaded", route |-> "validate-delivery", id |-> id,
           location |-> query.location, state |-> query.state,
           loaded |-> findById(id)]]
    /\ UNCHANGED <<store, req, res, market>>

\* variant: the answer is computed from the document as it is stored when the
\* handler resumes
resolveStored(c) ==
    validateDelivery(store, inflight[c].id, inflight[c].location, inflight[c].state)

\* the answer computed from the handler's own copy of the document
resolveLoaded(c) ==
    IF inflight[c].loaded = Undefined
    THEN Response("validate-delivery", 404, Undefined)
    ELSE validateDelivery(ValueOf(inflight[c].loaded), inflight[c].id,
                          inflight[c].location, inflight[c].state)

\* validate-delivery after its await, up to res.json
AnswerValidate(c) ==
    /\ inflight[c].pc = "loaded"
    /\ inflight[c].route = "validate-delivery"
    /\ inflight' = [inflight EXCEPT ![c] =
          [pc |-> "answered", route |-> @.route, id |-> @.id,
           location |-> @.location, state |-> @.state, loaded |-> @.loaded,
           res |-> resolveLoaded(c)]]
    /\ UNCHANGED <<store, req, res, market>>

\* PATCH delivery-zones up to its first await
LoadForUpdate(c, user, id, zones) ==
    /\ inflight[c] = Idle
    /\ store.version < MaxVersion
    /\ inflight' = [inflight EXCEPT ![c] =
          [pc |-> "loaded", route |-> "delivery-zones", id |-> id,
           user |-> user, zones |-> zones, loaded |-> findById(id)]]
    /\ UNCHANGED <<store, req, res, market>>

\* PATCH delivery-zones after its first await: the tests, the assignments to
\* the handler's copy and store.save(), which writes the copy
SaveUpdate(c) ==
    /\ inflight[c].pc = "loaded"
    /\ inflight[c].route = "delivery-zones"
    /\ LET done == IF inflight[c].loaded = Undefined
                   THEN [store |-> store,
                         res |-> Response("delivery-zones", 404, Undefined)]
                   ELSE updateDeliveryZones(ValueOf(inflight[c].loaded),
                                            inflight[c].user, inflight[c].id,
                                            inflight[c].zones)
       IN /\ store' = IF done.res.status = 200 THEN done.store ELSE store
          /\ inflight' = [inflight EXCEPT ![c] =
                [pc |-> "answered", route |-> @.route, id |-> @.id,
                 user |-> @.user, zones |-> @.zones, loaded |-> @.loaded,
                 res |-> done.res]]
    /\ UNCHANGED <<req, res, market>>

\* the answer reaches the client
Deliver(c) ==
    /\ inflight[c].pc = "answered"
    /\ inflight' = [inflight EXCEPT ![c] = Idle]
    /\ UNCHANGED <<store, req, res, market>>

\* a store as its owner created it, with no zones or with one of the lists
InitConcurrent ==
    /\ \E settings \in {Undefined} \cup
             {Some([shipping |-> Some([enabled |-> TRUE, zones |-> zs])]) :
                 zs \in ConcurrentLists} :
          store = createStore(Owner, settings)
    /\ req = NoRequest
    /\ res = NoResponse
    /\ inflight = [c \in Clients |-> Idle]
    /\ market = NoMarket

NextConcurrent ==
    \/ \E c \in Clients, id \in RequestIds, query \in ConcurrentQueries :
          LoadForValidate(c, id, query)
    \/ \E c \in Clients : AnswerValidate(c)
    \/ \E c \in Clients, user \in Sellers, id \in RequestIds, zs \in ConcurrentLists :
          LoadForUpdate(c, user, id, Some(zs))
    \/ \E c \in Clients : SaveUpdate(c)
    \/ \E c \in Clients : Deliver(c)

\* validate-delivery requests and delivery-zones updates in flight together
SpecConcurrent == InitConcurrent /\ [][NextConcurrent]_vars

(***************************************************************************)
(* The reference scenario: scripts/setupTestStore.js gives the seller's    *)
(* store three zones and scripts/checkSellerDelivery.js resolves delivery  *)
(* to a fixed customer against the zones of that store.                    *)
(***************************************************************************)
\* the deliveryZones array of setupTestStore
deliveryZones ==
    << Zone("rivers", "state-based", 1500, Some(TRUE), Some(<<Rivers>>), Undefined, Undefined),
       Zone("nearby", "radius-based", 1000, Some(TRUE), Undefined, Some(PortHarcourt), Some(50000)),
       Zone("extended", "radius-based", 2000, Some(TRUE), Undefined, Some(PortHarcourt), Some(100000)) >>

\* store.settings.shipping.zones = deliveryZones; store.version += 1; save
setupTestStore(s, zones) == [withZones(s, zones) EXCEPT !.version = @ + 1]

\* The loop of checkSellerDelivery.  zone.states.includes and
\* zone.location.latitude throw on undefined; the catch block then exits.
RECURSIVE checkZones(_, _, _, _, _, _)
checkZones(zones, customerLat, customerLon, customerState, i, availableZones) ==
    IF i > Len(zones)
    THEN [threw |-> FALSE, availableZones |-> availableZones]
    ELSE LET zone == zones[i] IN
         IF zone.isActive = Some(FALSE)
         THEN checkZones(zones, customerLat, customerLon, customerState, i + 1,
                         availableZones)
         ELSE IF zone.deliveryType = "state-based"
         THEN IF zone.states = Undefined
              THEN [threw |-> TRUE, availableZones |-> availableZones]
              ELSE IF \E k \in 1..Len(ValueOf(zone.states)) :
                         ValueOf(zone.states)[k] = customerState
                   THEN checkZones(zones, customerLat, customerLon, customerState,
                                   i + 1, Append(availableZones, zone))
                   ELSE checkZones(zones, customerLat, customerLon, customerState,
                                   i + 1, availableZones)
         ELSE IF zone.deliveryType = "radius-based"
         THEN IF zone.location = Undefined
              THEN [threw |-> TRUE, availableZones |-> availableZones]
              ELSE LET distance == calculateDistance(customerLat, customerLon,
                                                     ValueOf(zone.location).latitude,
                                                     ValueOf(zone.location).longitude)
                   IN IF withinRadius(distance, zone.radius)
                      THEN checkZones(zones, customerLat, customerLon, customerState,
                                      i + 1, Append(availableZones,
                                                    withDistance(zone, distance)))
                      ELSE checkZones(zones, customerLat, customerLon, customerState,
                                      i + 1, availableZones)
         ELSE checkZones(zones, customerLat, customerLon, customerState, i + 1,
                         availableZones)

\* What the script reports for a zone list and a customer, in the shape of a
\* route's answer: status 200 with the available zones in the order the script
\* sorts them and the cheapest option it prints, data undefined when it stops
\* at an empty zone list, status 500 when it exits through its catch block.
checkSellerDelivery(zones, customerLat, customerLon, customerState) ==
    IF Len(zones) = 0
    THEN Response("check-seller-delivery", 200, Undefined)
    ELSE LET checked == checkZones(zones, customerLat, customerLon, customerState,
                                   1, <<>>)
         IN IF checked.threw
            THEN Response("check-seller-delivery", 500, Undefined)
            ELSE Response("check-seller-delivery", 200,
                          Some(deliveryData(sort(checked.availableZones))))

\* a run of the script: customerLat = 4.9134, customerLon = 6.2932,
\* customerState = 'Rivers'
CheckSellerDelivery ==
    /\ res = NoResponse
    /\ req' = [route |-> "check-seller-delivery", id |-> store.id,
               location |-> Some(Buyer), state |-> Some(Rivers)]
    /\ res' = checkSellerDelivery(storedZones(store), Buyer.latitude,
                                  Buyer.longitude, Rivers)
    /\ UNCHANGED <<store, inflight, market>>

\* the states a query of the scenario carries
ScenarioStates == QueryStates \cup {Some(Rivers)}

\* the orders in which a store can hold the three zones
ScenarioLists ==
    {zs \in [1..3 -> {deliveryZones[i] : i \in 1..3}] :
        \A i \in 1..3 : \E j \in 1..3 : zs[j] = deliveryZones[i]}

\* the seller's store with the three zones of setupTestStore
InitScenario ==
    /\ \E zs \in ScenarioLists :
          store = setupTestStore(
                     createStore(Owner, Some([shipping |->
                                    Some([enabled |-> TRUE, zones |-> <<>>])])),
                     zs)
    /\ req = NoRequest
    /\ res = NoResponse
    /\ inflight = [c \in Clients |-> Idle]
    /\ market = NoMarket

NextScenario ==
    \/ \E id \in RequestIds, location \in QueryLocations, state \in ScenarioStates :
          ValidateDelivery(id, location, state)
    \/ CheckSellerDelivery
    \/ Reply

\* delivery resolution, by the route and by the script, on the scenario's store
SpecScenario == InitScenario /\ [][NextScenario]_vars

\* the route and the script resolve the same query on the stored zone list
ResolveBoth(location, state) ==
    /\ res = NoResponse
    /\ req' = [route |-> "resolve-both", id |-> store.id,
               location |-> Some(location), state |-> Some(state)]
    /\ res' = [route |-> "resolve-both",
               byRoute |-> validateDelivery(store, store.id, Some(location), Some(state)),
               byScript |-> checkSellerDelivery(storedZones(store), location.latitude,
                                                location.longitude, state)]
    /\ UNCHANGED <<store, inflight, market>>

NextBoth ==
    \/ \E location \in Points, state \in {rivers, Rivers, Lagos} :
          ResolveBoth(location, state)
    \/ Reply

\* the route and the script side by side on every zone list
SpecBoth == Init /\ [][NextBoth]_vars

(***************************************************************************)
(* GET /products/nearby (src/routes/products.js).  The User collection     *)
(* holds the sellers, whose address.coordinates.coordinates is a           *)
(* [longitude, latitude] pair or is missing; the Product collection holds   *)
(* the products in the order of the route's sort.  The request carries no   *)
(* category, price, rating or search filter.  Positions of a JavaScript     *)
(* array are counted from 1 here: coordinates[1] of the source is [2].      *)
(***************************************************************************)
\* const { latitude, longitude, radius = 10000 } = req.query, in metres
DefaultRadius == 10000

\* parseInt(req.query.limit) || 12
DefaultLimit == 12

\* the copy of calculateDistance in routes/products.js
calculateDistanceOfProducts(lat1, lon1, lat2, lon2) ==
    HaversineMetres[<<lat1, lon1, lat2, lon2>>]

\* the validators of the route on latitude and longitude
validCoordinates(latitude, longitude) ==
    /\ latitude \in (-90000000)..90000000
    /\ longitude \in (-180000000)..180000000

\* the seller's coordinates are a pair, which is what the geospatial query
\* can place
locatable(seller) ==
    seller.coordinates # Undefined /\ Len(ValueOf(seller.coordinates)) = 2

\* variant: User.find({ type: 'seller' }) with no $near condition
nearbySellersOfAll(sellers, latitude, longitude, radius) == sellers

\* User.find with $near and $maxDistance: the sellers that have coordinates
\* at most radius metres from the point.  The database computes this distance
\* itself; the model takes it from the same table.
nearbySellersOf(sellers, latitude, longitude, radius) ==
    LET Near(seller) ==
            /\ locatable(seller)
            /\ HaversineMetres[<<latitude, longitude,
                                 ValueOf(seller.coordinates)[2],
                                 ValueOf(seller.coordinates)[1]>>] <= radius
    IN SelectSeq(sellers, Near)

\* nearbySellers.find(s => s._id.toString() === product.seller._id.toString())
findSeller(nearbySellers, id) ==
    LET Is(seller) == seller.id = id
        found == SelectSeq(nearbySellers, Is)
    IN IF found = <<>> THEN Undefined ELSE Some(found[1])

\* the distance the map callback computes, null when the seller or its
\* coordinates are missing; with an array of fewer than two numbers
\* calculateDistance yields NaN, which is falsy as null is
distanceToSeller(seller, latitude, longitude) ==
    IF seller = Undefined \/ ValueOf(seller).coordinates = Undefined
    THEN Undefined
    ELSE IF Len(ValueOf(ValueOf(seller).coordinates)) < 2
    THEN Undefined
    ELSE Some(calculateDistanceOfProducts(
                 latitude, longitude,
                 ValueOf(ValueOf(seller).coordinates)[2],
                 ValueOf(ValueOf(seller).coordinates)[1]))

\* distance ? Math.round(distance * 100) / 100 : null: null and 0 are falsy
attachedDistance(distance) ==
    IF distance = Undefined \/ ValueOf(distance) = 0
    THEN Undefined
    ELSE Some(roundDistance(ValueOf(distance)))

\* { ...product.toObject(), distance: ... }
productWithDistance(product, nearbySellers, latitude, longitude) ==
    [id |-> product.id, seller |-> product.seller, status |-> product.status,
     distance |-> attachedDistance(
                     distanceToSeller(findSeller(nearbySellers, product.seller),
                                      latitude, longitude))]

\* the JSON answer of the route
NearbyResponse(status, data, pagination, searchLocation) ==
    [route |-> "nearby", status |-> status, success |-> (status = 200),
     data |-> data, pagination |-> pagination, searchLocation |-> searchLocation]

\* The handler's answer on the collections m.
productsNearby(m, latitude, longitude, radiusParam, pageParam, limitParam) ==
    IF ~validCoordinates(latitude, longitude)
    THEN NearbyResponse(400, Undefined, Undefined, Undefined)
    ELSE
    LET radius == IF radiusParam = Undefined THEN DefaultRadius ELSE ValueOf(radiusParam)
        page == IF pageParam = Undefined THEN 1 ELSE ValueOf(pageParam)
        limit == IF limitParam = Undefined THEN DefaultLimit ELSE ValueOf(limitParam)
        skip == (page - 1) * limit
        nearbySellers == nearbySellersOf(m.sellers, latitude, longitude, radius)
        sellerIds == {nearbySellers[i].id : i \in DOMAIN nearbySellers}
        Filter(product) == product.seller \in sellerIds /\ product.status = "active"
        matching == SelectSeq(m.products, Filter)
        last == IF skip + limit < Len(matching) THEN skip + limit ELSE Len(matching)
        products == SubSeq(matching, skip + 1, last)
        total == Len(matching)
    IN IF Len(nearbySellers) = 0
       THEN NearbyResponse(200, Some(<<>>),
                           Some([page |-> page, limit |-> limit, total |-> 0, pages |-> 0]),
                           Undefined)
       ELSE NearbyResponse(
               200,
               Some([i \in DOMAIN products |->
                        productWithDistance(products[i], nearbySellers,
                                            latitude, longitude)]),
               Some([page |-> page, limit |-> limit, total |-> total,
                     pages |-> (total + limit - 1) \div limit]),
               Some([latitude |-> latitude, longitude |-> longitude,
                     radius |-> radius]))

ProductsNearby(latitude, longitude, radius, page, limit) ==
    /\ res = NoResponse
    /\ req' = [route |-> "nearby", latitude |-> latitude, longitude |-> longitude,
               radius |-> radius, page |-> page, limit |-> limit]
    /\ res' = productsNearby(market, latitude, longitude, radius, page, limit)
    /\ UNCHANGED <<store, inflight, market>>

\* where a seller may be: nowhere (no coordinates, or an array of one
\* number), or at one of three points, as [lon, lat]
SellerPlaces ==
    {Undefined, Some(<<7013400>>)} \cup
    {Some(<<p.longitude, p.latitude>>) : p \in {PortHarcourt, North50, Buyer}}

\* the collections: two sellers, and four products in the order of the sort
Markets ==
    {[sellers |-> <<[id |-> "sellerA", coordinates |-> a],
                    [id |-> "sellerB", coordinates |-> b]>>,
      products |-> <<[id |-> "p1", seller |-> "sellerA", status |-> "active"],
                     [id |-> "p2", seller |-> "sellerB", status |-> "active"],
                     [id |-> "p3", seller |-> "sellerA", status |-> "draft"],
                     [id |-> "p4", seller |-> "sellerB", status |-> "active"]>>] :
        a \in SellerPlaces, b \in SellerPlaces}

\* the points a nearby request names; the last fails the latitude validator
NearbyPoints ==
    {PortHarcourt, Buyer, [latitude |-> 91000000, longitude |-> 7013400]}

\* the radius query parameter, in metres
NearbyRadii == {Undefined, Some(60000), Some(100000)}

InitNearby ==
    /\ store = createStore(Owner, Undefined)
    /\ req = NoRequest
    /\ res = NoResponse
    /\ inflight = [c \in Clients |-> Idle]
    /\ market \in Markets

NextNearby ==
    \/ \E p \in NearbyPoints, radius \in NearbyRadii,
          page \in {Undefined, Some(2)}, limit \in {Undefined, Some(1)} :
          ProductsNearby(p.latitude, p.longitude, radius, page, limit)
    \/ Reply

\* the nearby search on every content of the collections
SpecNearby == InitNearby /\ [][NextNearby]_vars

(***************************************************************************)
(* Publishing, soft delete and the public endpoints (routes/stores.js,     *)
(* models/Store.js).  The store document carries, besides the fields of    *)
(* createStore, its slug, isActive, settings.isPublished and               *)
(* performance.views; market.sellers holds the store's seller.             *)
(***************************************************************************)
\* the most views counted
MaxViews == 2

StoreSlug == "my-store"

\* new Store({...}) saved: the defaults of the schema
newStore(user) ==
    [id |-> StoreId, seller |-> user, version |-> 1, shipping |-> Undefined,
     slug |-> StoreSlug, isActive |-> TRUE, isPublished |-> FALSE, views |-> 0]

\* storeSchema.methods.publish
publish(s) == [s EXCEPT !.isPublished = TRUE]

\* storeSchema.methods.unpublish
unpublish(s) == [s EXCEPT !.isPublished = FALSE]

\* storeSchema.methods.incrementViews
incrementViews(s) == [s EXCEPT !.views = @ + 1]

\* PATCH /stores/:id/publish
publishStore(s, user, id, isPublished) ==
    IF id # s.id
    THEN [store |-> s, res |-> Response("publish", 404, Undefined)]
    ELSE IF s.seller # user /\ userType(user) # "admin"
    THEN [store |-> s, res |-> Response("publish", 403, Undefined)]
    ELSE LET saved == IF isPublished THEN publish(s) ELSE unpublish(s)
         IN [store |-> saved, res |-> Response("publish", 200, Some(saved.isPublished))]

\* router.patch('/:id/publish', protect, restrictTo('seller'), handler)
PublishStore(user, id, isPublished) ==
    LET done == IF restrictTo({"seller"}, user)
                THEN publishStore(store, user, id, isPublished)
                ELSE denied(store, "publish")
    IN /\ res = NoResponse
       /\ req' = [route |-> "publish", id |-> id, user |-> user]
       /\ store' = done.store
       /\ res' = done.res
       /\ UNCHANGED <<inflight, market>>

\* DELETE /stores/:id
deleteStore(s, user, id) ==
    IF id # s.id
    THEN [store |-> s, res |-> Response("delete-store", 404, Undefined)]
    ELSE IF s.seller # user /\ userType(user) # "admin"
    THEN [store |-> s, res |-> Response("delete-store", 403, Undefined)]
    ELSE [store |-> [s EXCEPT !.isActive = FALSE, !.isPublished = FALSE],
          res |-> Response("delete-store", 200, Undefined)]

\* router.delete('/:id', protect, restrictTo('seller'), handler)
DeleteStore(user, id) ==
    LET done == IF restrictTo({"seller"}, user)
                THEN deleteStore(store, user, id)
                ELSE denied(store, "delete-store")
    IN /\ res = NoResponse
       /\ req' = [route |-> "delete-store", id |-> id, user |-> user]
       /\ store' = done.store
       /\ res' = done.res
       /\ UNCHANGED <<inflight, market>>

\* GET /stores/public: Store.find({$or: [{isPublished: true},
\* {'settings.isPublished': true}]}), then the stores whose populated seller
\* has a pair of coordinates.  No document has a top-level isPublished.
getPublicStores(s, sellers) ==
    LET stores == IF s.isPublished THEN <<s>> ELSE <<>>
        found(store1) == \E i \in DOMAIN sellers :
                            sellers[i].id = store1.seller /\ locatable(sellers[i])
        storesWithLocations == SelectSeq(stores, found)
    IN Response("public-stores", 200,
                Some([i \in DOMAIN storesWithLocations |-> storesWithLocations[i].id]))

GetPublicStores ==
    /\ res = NoResponse
    /\ req' = [route |-> "public-stores"]
    /\ res' = getPublicStores(store, market.sellers)
    /\ UNCHANGED <<store, inflight, market>>

\* GET /stores/public/:slug
getPublicStore(s, slug) ==
    IF ~(s.slug = slug /\ s.isPublished /\ s.isActive)
    THEN [store |-> s, res |-> Response("public-store", 404, Undefined)]
    ELSE [store |-> incrementViews(s), res |-> Response("public-store", 200, Some(s.id))]

GetPublicStore(slug) ==
    LET done == getPublicStore(store, slug)
    IN /\ res = NoResponse
       /\ done.store.views <= MaxViews
       /\ req' = [route |-> "public-store", slug |-> slug]
       /\ store' = done.store
       /\ res' = done.res
       /\ UNCHANGED <<inflight, market>>

\* the store of the owner, whose address has coordinates or has none
InitStorefront ==
    /\ store = newStore(Owner)
    /\ req = NoRequest
    /\ res = NoResponse
    /\ inflight = [c \in Clients |-> Idle]
    /\ \E place \in {Undefined, Some(<<PortHarcourt.longitude, PortHarcourt.latitude>>)} :
          market = [sellers |-> <<[id |-> Owner, coordinates |-> place]>>,
                    products |-> <<>>]

NextStorefront ==
    \/ \E user \in Users, id \in RequestIds, isPublished \in BOOLEAN :
          PublishStore(user, id, isPublished)
    \/ \E user \in Users, id \in RequestIds : DeleteStore(user, id)
    \/ \E user \in Users, id \in RequestIds : UpdateStore(user, id, Undefined)
    \/ GetPublicStores
    \/ \E slug \in {StoreSlug, "other-store"} : GetPublicStore(slug)
    \/ Reply

\* publishing, deleting, updating and viewing one store
SpecStorefront == InitStorefront /\ [][NextStorefront]_vars

(***************************************************************************)
(* Orders (routes/orders.js, models/Order.js, models/Cart.js,              *)
(* routes/cart.js).  market holds the products, the buyers' carts and the  *)
(* orders; an order's id is its position in market.orders.                 *)
(***************************************************************************)
\* the most orders ever created
MaxOrders == 1

\* the most entries of one order's timeline
MaxTimeline == 2

\* the largest total quantity of a cart
MaxCart == 2

\* the stock a product may start with
InitialStocks == {1}

ProductIds == {"p1"}

Buyers == {"buyer1", "buyer2"}

\* item.variant of a cart line
Variants == {[color |-> "red"], [color |-> "blue"]}

Product(seller, status, quantity) ==
    [seller |-> seller, status |-> status,
     inventory |-> [quantity |-> quantity], totalSales |-> 0]

\* the answer of an order or cart handler
OrderResponse(route, status, message, data) ==
    [route |-> route, status |-> status, message |-> message, data |-> data]

\* the total quantity of one product over the items of a cart or an order
RECURSIVE quantityOf(_, _)
quantityOf(items, productId) ==
    IF items = <<>> THEN 0
    ELSE (IF Head(items).product = productId THEN Head(items).quantity ELSE 0)
         + quantityOf(Tail(items), productId)

\* cartSchema.methods.addItem
addItem(items, productId, quantity, variant) ==
    LET existing == {i \in DOMAIN items :
                        items[i].product = productId /\ items[i].variant = variant}
    IN IF existing # {}
       THEN LET existingItemIndex == CHOOSE i \in existing : \A j \in existing : i <= j
            IN [items EXCEPT ![existingItemIndex].quantity = @ + quantity]
       ELSE Append(items, [product |-> productId, quantity |-> quantity,
                           variant |-> variant])

\* POST /cart/add: the product and the state of the market after it
addToCart(m, user, productId, quantity, variant) ==
    LET product == m.products[productId]
    IN IF product.status # "active"
       THEN [market |-> m,
             res |-> OrderResponse("cart-add", 400, "Product is not available", Undefined)]
       ELSE IF product.inventory.quantity < quantity
       THEN [market |-> m,
             res |-> OrderResponse("cart-add", 400, "Only available in stock", Undefined)]
       ELSE LET items == addItem(m.carts[user], productId, quantity, variant)
            IN [market |-> [m EXCEPT !.carts[user] = items],
                res |-> OrderResponse("cart-add", 200, "Item added to cart successfully",
                                      Undefined)]

AddToCart(user, productId, quantity, variant) ==
    LET done == addToCart(market, user, productId, quantity, variant)
    IN /\ res = NoResponse
       /\ \A productId2 \in ProductIds :
             quantityOf(done.market.carts[user], productId2) <= MaxCart
       /\ req' = [route |-> "cart-add"]
       /\ market' = done.market
       /\ res' = done.res
       /\ UNCHANGED <<store, inflight>>

\* PUT /products/:id with a body that holds a status only
updateProduct(m, user, id, status) ==
    IF m.products[id].seller # user /\ userType(user) # "admin"
    THEN [market |-> m,
          res |-> OrderResponse("update-product", 403,
                                "Not authorized to update this product", Undefined)]
    ELSE [market |-> [m EXCEPT !.products[id].status = status],
          res |-> OrderResponse("update-product", 200, "Product updated successfully",
                                Undefined)]

UpdateProduct(user, id, status) ==
    LET done == updateProduct(market, user, id, status)
    IN /\ res = NoResponse
       /\ req' = [route |-> "update-product"]
       /\ market' = done.market
       /\ res' = done.res
       /\ UNCHANGED <<store, inflight>>

\* the loop of POST /orders over cart.items: the message of the first check
\* that fails, or "none"
RECURSIVE firstRejection(_, _, _)
firstRejection(m, items, i) ==
    IF i > Len(items) THEN "none"
    ELSE LET product == m.products[items[i].product]
         IN IF product.status # "active" THEN "is no longer available"
            ELSE IF product.inventory.quantity < items[i].quantity
            THEN "Insufficient stock"
            ELSE firstRejection(m, items, i + 1)

\* orderItems
orderItemsOf(m, items) ==
    [i \in DOMAIN items |->
        [product |-> items[i].product, seller |-> m.products[items[i].product].seller,
         quantity |-> items[i].quantity, variant |-> items[i].variant]]

\* a rejection of POST /orders that clears the cart first
checkOrderClearingCart(m, user) ==
    LET cart == m.carts[user]
        rejection == IF Len(cart) = 0 THEN "Cart is empty" ELSE firstRejection(m, cart, 1)
    IN [rejection |-> rejection,
        market |-> IF rejection = "none" THEN m ELSE [m EXCEPT !.carts[user] = <<>>],
        items |-> cart,
        orderItems |-> IF rejection = "none" THEN orderItemsOf(m, cart) ELSE <<>>]

\* POST /orders up to Order.create: the cart as loaded, the outcome of the
\* checks and the market they leave
checkOrder(m, user) ==
    LET cart == m.carts[user]
        rejection == IF Len(cart) = 0 THEN "Cart is empty" ELSE firstRejection(m, cart, 1)
    IN [rejection |-> rejection,
        market |-> m,
        items |-> cart,
        orderItems |-> IF rejection = "none" THEN orderItemsOf(m, cart) ELSE <<>>]

\* the request of client c loads the cart and checks it; it is answered 400
\* or goes on to create the order
CheckOut(c, user) ==
    LET done == checkOrder(market, user)
    IN /\ inflight[c] = Idle
       /\ IF done.rejection # "none"
          THEN /\ res = NoResponse
               /\ req' = [route |-> "orders"]
               /\ res' = OrderResponse("orders", 400, done.rejection, Undefined)
               /\ market' = done.market
               /\ UNCHANGED <<store, inflight>>
          ELSE /\ Len(market.orders)
                     + Cardinality({d \in Clients : inflight[d].pc = "creating"})
                  < MaxOrders
               /\ inflight' = [inflight EXCEPT ![c] =
                                 [pc |-> "creating", user |-> user, items |-> done.items,
                                  orderItems |-> done.orderItems]]
               /\ UNCHANGED <<store, req, res, market>>

\* Product.findByIdAndUpdate(item.product._id, {$inc: {'inventory.quantity':
\* sign * item.quantity, totalSales: -sign * item.quantity}}) for every item
incrementAll(products, items, sign) ==
    [p \in DOMAIN products |->
        [products[p] EXCEPT
            !.inventory.quantity = @ + sign * quantityOf(items, p),
            !.totalSales = @ - sign * quantityOf(items, p)]]

\* orderSchema.methods.addTimelineEntry
addTimelineEntry(order, status) ==
    [order EXCEPT !.timeline = Append(@, status), !.status = status]

\* POST /orders from Order.create on
placeOrder(m, user, items, orderItems) ==
    LET order == addTimelineEntry([buyer |-> user, items |-> orderItems,
                                   status |-> "pending", timeline |-> <<>>], "pending")
    IN [market |-> [m EXCEPT !.orders = Append(@, order),
                             !.products = incrementAll(@, items, -1),
                             !.carts[user] = <<>>],
        res |-> OrderResponse("orders", 201, "Order created successfully", Undefined)]

PlaceOrder(c) ==
    /\ inflight[c].pc = "creating"
    /\ res = NoResponse
    /\ LET done == placeOrder(market, inflight[c].user, inflight[c].items,
                              inflight[c].orderItems)
       IN /\ market' = done.market
          /\ res' = done.res
    /\ req' = [route |-> "orders"]
    /\ inflight' = [inflight EXCEPT ![c] = Idle]
    /\ UNCHANGED store

\* body('status').isIn([...])
ValidStatuses == {"confirmed", "processing", "shipped", "delivered", "cancelled"}

\* PUT /orders/:id/status
updateOrderStatus(m, user, id, status) ==
    IF status \notin ValidStatuses
    THEN [market |-> m,
          res |-> OrderResponse("order-status", 400, "Validation failed", Undefined)]
    ELSE IF id \notin DOMAIN m.orders
    THEN [market |-> m,
          res |-> OrderResponse("order-status", 404, "Order not found", Undefined)]
    ELSE LET order == m.orders[id]
             canUpdate == \/ userType(user) = "admin"
                          \/ \E i \in DOMAIN order.items : order.items[i].seller = user
         IN IF ~canUpdate
            THEN [market |-> m,
                  res |-> OrderResponse("order-status", 403,
                                        "Not authorized to update this order", Undefined)]
            ELSE [market |-> [m EXCEPT !.orders[id] = addTimelineEntry(order, status)],
                  res |-> OrderResponse("order-status", 200,
                                        "Order status updated successfully", Undefined)]

\* the timeline of order id has room for one more entry
timelineHasRoom(id) ==
    id \in DOMAIN market.orders => Len(market.orders[id].timeline) < MaxTimeline

UpdateOrderStatus(user, id, status) ==
    LET done == updateOrderStatus(market, user, id, status)
    IN /\ res = NoResponse
       /\ timelineHasRoom(id)
       /\ req' = [route |-> "order-status"]
       /\ market' = done.market
       /\ res' = done.res
       /\ UNCHANGED <<store, inflight>>

\* PUT /orders/:id/cancel
cancelOrder(m, user, id) ==
    IF id \notin DOMAIN m.orders
    THEN [market |-> m,
          res |-> OrderResponse("order-cancel", 404, "Order not found", Undefined)]
    ELSE LET order == m.orders[id]
         IN IF order.buyer # user /\ userType(user) # "admin"
            THEN [market |-> m,
                  res |-> OrderResponse("order-cancel", 403,
                                        "Not authorized to cancel this order", Undefined)]
            ELSE IF order.status \in {"shipped", "delivered", "cancelled"}
            THEN [market |-> m,
                  res |-> OrderResponse("order-cancel", 400,
                                        "Order cannot be cancelled at this stage",
                                        Undefined)]
            ELSE [market |-> [m EXCEPT
                                 !.products = incrementAll(@, order.items, 1),
                                 !.orders[id] = addTimelineEntry(order, "cancelled")],
                  res |-> OrderResponse("order-cancel", 200,
                                        "Order cancelled successfully", Undefined)]

CancelOrder(user, id) ==
    LET done == cancelOrder(market, user, id)
    IN /\ res = NoResponse
       /\ timelineHasRoom(id)
       /\ req' = [route |-> "order-cancel"]
       /\ market' = done.market
       /\ res' = done.res
       /\ UNCHANGED <<store, inflight>>

\* the requests the clients send
OrderIds == 1 .. MaxOrders

StatusBodies == {"shipped", "cancelled", "returned"}

\* the buyer who is signed in at each client
BuyerOf(c) == IF c = "c1" THEN "buyer1" ELSE "buyer2"

\* the variants a buyer asks for
VariantsOf(user) == IF user = "buyer1" THEN Variants ELSE {[color |-> "red"]}

OrderUsers == Buyers \cup {Owner, "admin1"}

\* an active product of the owner, empty carts, no order
InitOrders ==
    /\ store = createStore(Owner, Undefined)
    /\ req = NoRequest
    /\ res = NoResponse
    /\ inflight = [c \in Clients |-> Idle]
    /\ \E quantity \in InitialStocks :
          market = [sellers |-> <<>>,
                    products |-> [p \in ProductIds |-> Product(Owner, "active", quantity)],
                    carts |-> [b \in Buyers |-> <<>>],
                    orders |-> <<>>]

NextOrders ==
    \/ \E user \in Buyers, productId \in ProductIds, quantity \in {1} :
          \E variant \in VariantsOf(user) :
             AddToCart(user, productId, quantity, variant)
    \/ \E user \in {Owner, "seller2"}, id \in ProductIds, status \in {"active", "inactive"} :
          UpdateProduct(user, id, status)
    \/ \E c \in Clients : CheckOut(c, BuyerOf(c))
    \/ \E c \in Clients : PlaceOrder(c)
    \/ \E user \in OrderUsers, id \in OrderIds, status \in StatusBodies :
          UpdateOrderStatus(user, id, status)
    \/ \E user \in OrderUsers, id \in OrderIds : CancelOrder(user, id)
    \/ Reply

\* carts, orders and stock under any interleaving of the requests
SpecOrders == InitOrders /\ [][NextOrders]_vars

(***************************************************************************)
(* calculateDistance as a function of its own (routes/stores.js,           *)
(* routes/products.js and scripts/checkSellerDelivery.js hold the same      *)
(* code).  Its result is a JavaScript number, which may be NaN: when the    *)
(* sum a of the formula exceeds 1 in double arithmetic, Math.sqrt(1 - a)    *)
(* is NaN and so are c and the distance.                                    *)
(***************************************************************************)
\* the number n, a distance in metres
Metres(n) == [nan |-> FALSE, metres |-> n]

NaN == [nan |-> TRUE, metres |-> 0]

\* points far from the sellers and buyers: on the equator, 0.08 degrees north
\* of it, the antipode of that point, the poles and the date line
NullIsland == [latitude |-> 0, longitude |-> 0]

NearEquator == [latitude |-> 80000, longitude |-> 0]

NearEquatorAntipode == [latitude |-> -80000, longitude |-> 180000000]

NorthPole == [latitude |-> 90000000, longitude |-> 0]

SouthPole == [latitude |-> -90000000, longitude |-> 0]

DateLine == [latitude |-> 0, longitude |-> 180000000]

DistancePoints ==
    Points \cup {NullIsland, NearEquator, NearEquatorAntipode, NorthPole,
                 SouthPole, DateLine}

\* R * c for the pairs of DistancePoints that are not pairs of Points, as the
\* source's formula yields it in double arithmetic, to the nearest metre.  For
\* NearEquator and its antipode a is 1 + 2^-52.
FarHaversine ==
    <<4815600, 7013400, 0, 0>> :> Metres(945234) @@
    <<4815600, 7013400, 80000, 0>> :> Metres(940210) @@
    <<4815600, 7013400, -80000, 180000000>> :> Metres(19074876) @@
    <<4815600, 7013400, 90000000, 0>> :> Metres(9472073) @@
    <<4815600, 7013400, -90000000, 0>> :> Metres(10543014) @@
    <<4815600, 7013400, 0, 180000000>> :> Metres(19069853) @@
    <<5265261, 7013400, 0, 0>> :> Metres(974286) @@
    <<5265261, 7013400, 80000, 0>> :> Metres(968953) @@
    <<5265261, 7013400, -80000, 180000000>> :> Metres(19046134) @@
    <<5265261, 7013400, 90000000, 0>> :> Metres(9422073) @@
    <<5265261, 7013400, -90000000, 0>> :> Metres(10593014) @@
    <<5265261, 7013400, 0, 180000000>> :> Metres(19040800) @@
    <<5265297, 7013400, 0, 0>> :> Metres(974289) @@
    <<5265297, 7013400, 80000, 0>> :> Metres(968956) @@
    <<5265297, 7013400, -80000, 180000000>> :> Metres(19046131) @@
    <<5265297, 7013400, 90000000, 0>> :> Metres(9422069) @@
    <<5265297, 7013400, -90000000, 0>> :> Metres(10593018) @@
    <<5265297, 7013400, 0, 180000000>> :> Metres(19040798) @@
    <<5265306, 7013400, 0, 0>> :> Metres(974289) @@
    <<5265306, 7013400, 80000, 0>> :> Metres(968956) @@
    <<5265306, 7013400, -80000, 180000000>> :> Metres(19046131) @@
    <<5265306, 7013400, 90000000, 0>> :> Metres(9422068) @@
    <<5265306, 7013400, -90000000, 0>> :> Metres(10593019) @@
    <<5265306, 7013400, 0, 180000000>> :> Metres(19040797) @@
    <<4913400, 6293200, 0, 0>> :> Metres(887114) @@
    <<4913400, 6293200, 80000, 0>> :> Metres(881652) @@
    <<4913400, 6293200, -80000, 180000000>> :> Metres(19133434) @@
    <<4913400, 6293200, 90000000, 0>> :> Metres(9461198) @@
    <<4913400, 6293200, -90000000, 0>> :> Metres(10553889) @@
    <<4913400, 6293200, 0, 180000000>> :> Metres(19127972) @@
    <<0, 0, 4815600, 7013400>> :> Metres(945234) @@
    <<0, 0, 5265261, 7013400>> :> Metres(974286) @@
    <<0, 0, 5265297, 7013400>> :> Metres(974289) @@
    <<0, 0, 5265306, 7013400>> :> Metres(974289) @@
    <<0, 0, 4913400, 6293200>> :> Metres(887114) @@
    <<0, 0, 0, 0>> :> Metres(0) @@
    <<0, 0, 80000, 0>> :> Metres(8896) @@
    <<0, 0, -80000, 180000000>> :> Metres(20006191) @@
    <<0, 0, 90000000, 0>> :> Metres(10007543) @@
    <<0, 0, -90000000, 0>> :> Metres(10007543) @@
    <<0, 0, 0, 180000000>> :> Metres(20015087) @@
    <<80000, 0, 4815600, 7013400>> :> Metres(940210) @@
    <<80000, 0, 5265261, 7013400>> :> Metres(968953) @@
    <<80000, 0, 5265297, 7013400>> :> Metres(968956) @@
    <<80000, 0, 5265306, 7013400>> :> Metres(968956) @@
    <<80000, 0, 4913400, 6293200>> :> Metres(881652) @@
    <<80000, 0, 0, 0>> :> Metres(8896) @@
    <<80000, 0, 80000, 0>> :> Metres(0) @@
    <<80000, 0, -80000, 180000000>> :> NaN @@
    <<80000, 0, 90000000, 0>> :> Metres(9998648) @@
    <<80000, 0, -90000000, 0>> :> Metres(10016439) @@
    <<80000, 0, 0, 180000000>> :> Metres(20006191) @@
    <<-80000, 180000000, 4815600, 7013400>> :> Metres(19074876) @@
    <<-80000, 180000000, 5265261, 7013400>> :> Metres(19046134) @@
    <<-80000, 180000000, 5265297, 7013400>> :> Metres(19046131) @@
    <<-80000, 180000000, 5265306, 7013400>> :> Metres(19046131) @@
    <<-80000, 180000000, 4913400, 6293200>> :> Metres(19133434) @@
    <<-80000, 180000000, 0, 0>> :> Metres(20006191) @@
    <<-80000, 180000000, 80000, 0>> :> NaN @@
    <<-80000, 180000000, -80000, 180000000>> :> Metres(0) @@
    <<-80000, 180000000, 90000000, 0>> :> Metres(10016439) @@
    <<-80000, 180000000, -90000000, 0>> :> Metres(9998648) @@
    <<-80000, 180000000, 0, 180000000>> :> Metres(8896) @@
    <<90000000, 0, 4815600, 7013400>> :> Metres(9472073) @@
    <<90000000, 0, 5265261, 7013400>> :> Metres(9422073) @@
    <<90000000, 0, 5265297, 7013400>> :> Metres(9422069) @@
    <<90000000, 0, 5265306, 7013400>> :> Metres(9422068) @@
    <<90000000, 0, 4913400, 6293200>> :> Metres(9461198) @@
    <<90000000, 0, 0, 0>> :> Metres(10007543) @@
    <<90000000, 0, 80000, 0>> :> Metres(9998648) @@
    <<90000000, 0, -80000, 180000000>> :> Metres(10016439) @@
    <<90000000, 0, 90000000, 0>> :> Metres(0) @@
    <<90000000, 0, -90000000, 0>> :> Metres(20015087) @@
    <<90000000, 0, 0, 180000000>> :> Metres(10007543) @@
    <<-90000000, 0, 4815600, 7013400>> :> Metres(10543014) @@
    <<-90000000, 0, 5265261, 7013400>> :> Metres(10593014) @@
    <<-90000000, 0, 5265297, 7013400>> :> Metres(10593018) @@
    <<-90000000, 0, 5265306, 7013400>> :> Metres(10593019) @@
    <<-90000000, 0, 4913400, 6293200>> :> Metres(10553889) @@
    <<-90000000, 0, 0, 0>> :> Metres(10007543) @@
    <<-90000000, 0, 80000, 0>> :> Metres(10016439) @@
    <<-90000000, 0, -80000, 180000000>> :> Metres(9998648) @@
    <<-90000000, 0, 90000000, 0>> :> Metres(20015087) @@
    <<-90000000, 0, -90000000, 0>> :> Metres(0) @@
    <<-90000000, 0, 0, 180000000>> :> Metres(10007543) @@
    <<0, 180000000, 4815600, 7013400>> :> Metres(19069853) @@
    <<0, 180000000, 5265261, 7013400>> :> Metres(19040800) @@
    <<0, 180000000, 5265297, 7013400>> :> Metres(19040798) @@
    <<0, 180000000, 5265306, 7013400>> :> Metres(19040797) @@
    <<0, 180000000, 4913400, 6293200>> :> Metres(19127972) @@
    <<0, 180000000, 0, 0>> :> Metres(20015087) @@
    <<0, 180000000, 80000, 0>> :> Metres(20006191) @@
    <<0, 180000000, -80000, 180000000>> :> Metres(8896) @@
    <<0, 180000000, 90000000, 0>> :> Metres(10007543) @@
    <<0, 180000000, -90000000, 0>> :> Metres(10007543) @@
    <<0, 180000000, 0, 180000000>> :> Metres(0)

\* the number calculateDistance returns
distanceOutcome(lat1, lon1, lat2, lon2) ==
    IF <<lat1, lon1, lat2, lon2>> \in DOMAIN HaversineMetres
    THEN Metres(calculateDistance(lat1, lon1, lat2, lon2))
    ELSE FarHaversine[<<lat1, lon1, lat2, lon2>>]

\* a caller applies the function to A and B and to B and A
CalculateDistance(A, B) ==
    /\ res = NoResponse
    /\ req' = [route |-> "calculateDistance", A |-> A, B |-> B]
    /\ res' = [route |-> "calculateDistance",
               forth |-> distanceOutcome(A.latitude, A.longitude,
                                         B.latitude, B.longitude),
               back |-> distanceOutcome(B.latitude, B.longitude,
                                        A.latitude, A.longitude)]
    /\ UNCHANGED <<store, inflight, market>>

InitDistance ==
    /\ store = createStore(Owner, Undefined)
    /\ req = NoRequest
    /\ res = NoResponse
    /\ inflight = [c \in Clients |-> Idle]
    /\ market = NoMarket

NextDistance ==
    \/ \E A \in DistancePoints, B \in DistancePoints : CalculateDistance(A, B)
    \/ Reply

\* the distance function on every pair of points
SpecDistance == InitDistance /\ [][NextDistance]_vars

(***************************************************************************)
(* Vocabulary of the properties.                                           *)
(***************************************************************************)
\* the answer in flight is a 200 answer of validate-delivery
ValidateOk == res.route = "validate-delivery" /\ res.status = 200

\* the answer in flight is an answer of validate-delivery for the store
ValidateAnswered == res.route = "validate-delivery" /\ req.id = StoreId

\* the zones array of the 200 answer
ResultZones == ValueOf(res.data).zones

\* the stored zone a returned entry was made from: the entry less its distance
StoredForm(e) ==
    [id |-> e.id, name |-> e.name, deliveryType |-> e.deliveryType, cost |-> e.cost,
     estimatedDays |-> e.estimatedDays, isActive |-> e.isActive,
     states |-> e.states, location |-> e.location, radius |-> e.radius]

\* the returned entries made from the stored zone z
Returned(z) == {i \in DOMAIN ResultZones : StoredForm(ResultZones[i]) = z}

\* distance in metres between the query location and the centre of zone z
DistanceTo(z, location) ==
    calculateDistance(ValueOf(location).latitude, ValueOf(location).longitude,
                      ValueOf(z.location).latitude, ValueOf(z.location).longitude)

\* the state rule: the query's state is non-empty and equals, ignoring case,
\* an element of the zone's states
StateRule(z, state) ==
    /\ state # Undefined
    /\ ValueOf(state) # EmptyString
    /\ z.states # Undefined
    /\ \E k \in DOMAIN ValueOf(z.states) :
          toLowerCase(ValueOf(z.states)[k]) = toLowerCase(ValueOf(state))

\* the radius rule: the query's location is at most radius away from the centre
RadiusRule(z, location) ==
    /\ location # Undefined
    /\ z.location # Undefined
    /\ z.radius # Undefined
    /\ DistanceTo(z, location) <= ValueOf(z.radius)

\* the zone is active and matches the query under the rule of its type
Covers(z, location, state) ==
    /\ z.isActive # Some(FALSE)
    /\ \/ z.deliveryType = "state-based" /\ StateRule(z, state)
       \/ z.deliveryType = "radius-based" /\ RadiusRule(z, location)

\* the positions of the stored list whose zone covers the query
CoveringPositions(location, state) ==
    {i \in DOMAIN storedZones(store) : Covers(storedZones(store)[i], location, state)}

\* a zone the data model calls malformed
Malformed(z) ==
    \/ z.deliveryType = "radius-based" /\ (z.location = Undefined \/ z.radius = Undefined)
    \/ z.deliveryType = "state-based"
          /\ (z.states = Undefined \/ ValueOf(z.states) = <<>>)

WellFormed(z) == ~Malformed(z)

(***************************************************************************)
(* Properties of validate-delivery.                                        *)
(***************************************************************************)
\* C1: the zones array of a validate-delivery answer holds exactly the stored
\* zones that are active and match the query under the rule of their type:
\* each such zone once for each of its positions in the stored list, and
\* nothing else.
C1_ZonesAreTheCoveringZones ==
    ValidateOk =>
        /\ Len(ResultZones) = Cardinality(CoveringPositions(req.location, req.state))
        /\ \A k \in DOMAIN ResultZones :
              \E i \in CoveringPositions(req.location, req.state) :
                  storedZones(store)[i] = StoredForm(ResultZones[k])
        /\ \A i \in CoveringPositions(req.location, req.state) :
              Cardinality(Returned(storedZones(store)[i])) =
              Cardinality({j \in CoveringPositions(req.location, req.state) :
                              storedZones(store)[j] = storedZones(store)[i]})

\* C1 witness: an answer that returns two of three stored zones
C1_Witness ==
    /\ ValidateOk
    /\ Len(storedZones(store)) = 3
    /\ Len(ResultZones) = 2
    /\ StoredForm(ResultZones[1]) # StoredForm(ResultZones[2])

\* C2: cheapestOption is the first element of zones, so no returned zone costs
\* less; it is null exactly when zones is empty, and available is true exactly
\* when zones is non-empty.
C2_CheapestIsFirstAndMinimal ==
    ValidateOk =>
        LET data == ValueOf(res.data) IN
        /\ (data.zones = <<>>) <=> (data.cheapestOption = Undefined)
        /\ data.available <=> (data.zones # <<>>)
        /\ data.zones # <<>> =>
              /\ data.cheapestOption = Some(data.zones[1])
              /\ \A i \in DOMAIN data.zones :
                    ValueOf(data.cheapestOption).cost <= data.zones[i].cost

\* C2 witness: the cheapest option is a zone that is stored after a dearer
\* returned zone
C2_Witness ==
    /\ ValidateOk
    /\ Len(ResultZones) >= 2
    /\ StoredForm(ResultZones[Len(ResultZones)]) = storedZones(store)[1]
    /\ ValueOf(ValueOf(res.data).cheapestOption).cost < storedZones(store)[1].cost

\* C3: zones is in ascending order of cost and the order is stable: the
\* returned zones of any one cost are in the order of the stored list.
C3_SortedByCostStable ==
    ValidateOk =>
        /\ \A i, j \in DOMAIN ResultZones :
              i < j => ResultZones[i].cost <= ResultZones[j].cost
        /\ \A c \in {ResultZones[i].cost : i \in DOMAIN ResultZones} :
              LET OfCost(e) == e.cost = c
                  CoversOfCost(z) == z.cost = c /\ Covers(z, req.location, req.state)
                  returned == SelectSeq(ResultZones, OfCost)
              IN [i \in DOMAIN returned |-> StoredForm(returned[i])]
                    = SelectSeq(storedZones(store), CoversOfCost)

\* C3 witness: two different zones of the minimal cost are returned ahead of
\* a dearer zone that is stored first
C3_Witness ==
    /\ ValidateOk
    /\ Len(ResultZones) = 3
    /\ ResultZones[1].cost = ResultZones[2].cost
    /\ StoredForm(ResultZones[1]) # StoredForm(ResultZones[2])
    /\ ResultZones[2].cost < ResultZones[3].cost
    /\ StoredForm(ResultZones[3]) = storedZones(store)[1]

\* C4: an active radius-based zone is returned for a query with a location
\* if and only if the unrounded distance from the location to its centre is
\* at most its radius: the boundary matches, and a location farther than the
\* radius does not, even when the distance rounded to 0.01 km equals the radius.
C4_RadiusMatchIsUnroundedDistance ==
    (ValidateOk /\ req.location # Undefined) =>
        \A i \in DOMAIN storedZones(store) :
            LET z == storedZones(store)[i] IN
            (/\ z.deliveryType = "radius-based"
             /\ z.isActive # Some(FALSE)
             /\ z.location # Undefined
             /\ z.radius # Undefined)
            => (Returned(z) # {} <=> DistanceTo(z, req.location) <= ValueOf(z.radius))

\* C4 witness: a location 4 m beyond the radius, whose distance rounds to the
\* radius, is answered without the zone
C4_Witness ==
    /\ ValidateOk
    /\ req.location # Undefined
    /\ \E i \in DOMAIN storedZones(store) :
          LET z == storedZones(store)[i] IN
          /\ z.deliveryType = "radius-based"
          /\ z.isActive # Some(FALSE)
          /\ z.location # Undefined
          /\ z.radius # Undefined
          /\ DistanceTo(z, req.location) > ValueOf(z.radius)
          /\ roundDistance(DistanceTo(z, req.location)) = ValueOf(z.radius)
          /\ Returned(z) = {}

\* C5: an active state-based zone is returned if and only if the query's state
\* is non-empty and equals, ignoring letter case, an element of its states; a
\* zone whose states list is empty is never returned.
C5_StateMatchIgnoresCase ==
    ValidateOk =>
        \A i \in DOMAIN storedZones(store) :
            LET z == storedZones(store)[i] IN
            (/\ z.deliveryType = "state-based"
             /\ z.isActive # Some(FALSE)
             /\ z.states # Undefined)
            => /\ Returned(z) # {} <=> StateRule(z, req.state)
               /\ ValueOf(z.states) = <<>> => Returned(z) = {}

\* C5 witness: a zone is returned for a state that equals one of its states
\* only when case is ignored, next to a zone with no states that is not
C5_Witness ==
    /\ ValidateOk
    /\ req.state # Undefined
    /\ \E i, j \in DOMAIN storedZones(store) :
          LET z == storedZones(store)[i]
              e == storedZones(store)[j]
          IN /\ z.deliveryType = "state-based"
             /\ z.states # Undefined
             /\ \A k \in DOMAIN ValueOf(z.states) : ValueOf(z.states)[k] # ValueOf(req.state)
             /\ Returned(z) # {}
             /\ e.deliveryType = "state-based"
             /\ e.isActive # Some(FALSE)
             /\ e.states = Some(<<>>)
             /\ Returned(e) = {}

\* C6: a zone whose isActive is false is never in zones nor the cheapestOption;
\* a zone whose isActive is true or absent is returned whenever its rule
\* matches the query.
C6_InactiveZonesExcluded ==
    ValidateOk =>
        /\ \A i \in DOMAIN ResultZones : ResultZones[i].isActive # Some(FALSE)
        /\ \A e \in ValueOf(res.data).cheapestOption : e.isActive # Some(FALSE)
        /\ \A i \in DOMAIN storedZones(store) :
              LET z == storedZones(store)[i] IN
              (z.isActive \in {Undefined, Some(TRUE)} /\ Covers(z, req.location, req.state))
              => Returned(z) # {}

\* C6 witness: an inactive zone whose rule matches the query is left out while
\* a zone with no isActive is returned
C6_Witness ==
    /\ ValidateOk
    /\ \E i, j \in DOMAIN storedZones(store) :
          LET off == storedZones(store)[i]
              on == storedZones(store)[j]
          IN /\ off.isActive = Some(FALSE)
             /\ Covers([off EXCEPT !.isActive = Some(TRUE)], req.location, req.state)
             /\ Returned(off) = {}
             /\ on.isActive = Undefined
             /\ Returned(on) # {}

\* C7: whenever no stored zone covers the query (no zones, no location and no
\* state, or no covering zone), validate-delivery for an existing store answers
\* 200 with exactly {available: false, zones: [], cheapestOption: null}.
C7_NoMatchIsSuccess ==
    (ValidateAnswered /\ CoveringPositions(req.location, req.state) = {}) =>
        /\ res.status = 200
        /\ res.data = Some([available |-> FALSE, zones |-> <<>>,
                            cheapestOption |-> Undefined])

\* C8: a malformed zone never makes validate-delivery fail: the answer is the
\* one the store would give with its malformed zones removed.
C8_MalformedZoneIsSkipped ==
    ValidateAnswered =>
        res = validateDelivery(
                 withZones(store, SelectSeq(storedZones(store), WellFormed)),
                 req.id, req.location, req.state)

\* C9: a radius-based zone whose radius is 0 or less is never returned, not
\* even for a location that is its centre.
C9_NonPositiveRadiusNeverMatches ==
    ValidateOk =>
        \A i \in DOMAIN ResultZones :
            (ResultZones[i].deliveryType = "radius-based"
                /\ ResultZones[i].radius # Undefined)
            => ValueOf(ResultZones[i].radius) > 0

\* the set of zones the store returns for a query, and whether it answers 200
ZonesFor(location, state) ==
    LET answer == validateDelivery(store, StoreId, location, state) IN
    [ok |-> answer.status = 200,
     zones |-> IF answer.status = 200
               THEN {ValueOf(answer.data).zones[i] :
                        i \in DOMAIN ValueOf(answer.data).zones}
               ELSE {}]

\* C10: for a query with both a location and a state, the set of zones
\* returned is the union of the set returned for the location alone and the
\* set returned for the state alone; the query is answered 200 exactly when
\* both of those are.
C10_BothFieldsGiveTheUnion ==
    (ValidateAnswered /\ req.location # Undefined /\ req.state # Undefined) =>
        LET onlyLocation == ZonesFor(req.location, Undefined)
            onlyState == ZonesFor(Undefined, req.state)
        IN /\ (res.status = 200) <=> (onlyLocation.ok /\ onlyState.ok)
           /\ res.status = 200 =>
                 {ResultZones[i] : i \in DOMAIN ResultZones}
                    = onlyLocation.zones \cup onlyState.zones

\* C10 witness: a query with a location and a state is answered with a zone
\* matched by state and a zone matched by distance
C10_Witness ==
    /\ ValidateOk
    /\ req.location # Undefined
    /\ req.state # Undefined
    /\ \E i, j \in DOMAIN ResultZones :
          /\ ResultZones[i].deliveryType = "state-based"
          /\ ResultZones[j].deliveryType = "radius-based"

\* the multiple of 10 m nearest to d, the upper one when d is half-way
HalfUp(d) == IF d % 10 >= 5 THEN d - (d % 10) + 10 ELSE d - (d % 10)

\* C11: every radius-based zone of the result carries a distance that is the
\* computed distance rounded half-up to 0.01 km, the computed distance itself
\* being at most the radius; a zone matched by state carries no distance.
C11_DistanceIsRoundedHalfUp ==
    ValidateOk =>
        \A i \in DOMAIN ResultZones :
            LET e == ResultZones[i] IN
            /\ e.deliveryType = "radius-based" =>
                  /\ "distance" \in DOMAIN e
                  /\ e.distance = HalfUp(DistanceTo(e, req.location))
                  /\ DistanceTo(e, req.location) <= ValueOf(e.radius)
            /\ e.deliveryType = "state-based" => "distance" \notin DOMAIN e

\* C11 witness: a zone 50.005 km away is reported at 50.01 km, next to a zone
\* matched by state
C11_Witness ==
    /\ ValidateOk
    /\ \E i, j \in DOMAIN ResultZones :
          /\ ResultZones[i].deliveryType = "radius-based"
          /\ DistanceTo(ResultZones[i], req.location) % 10 = 5
          /\ ResultZones[i].distance = DistanceTo(ResultZones[i], req.location) + 5
          /\ ResultZones[j].deliveryType = "state-based"
          /\ "distance" \notin DOMAIN ResultZones[j]

\* a zone whose deliveryType the resolution knows
KnownType(z) == z.deliveryType \in {"state-based", "radius-based"}

\* C12: a zone whose deliveryType is neither 'state-based' nor 'radius-based'
\* never matches and never causes an error: the answer is the one the store
\* would give with those zones removed.
C12_UnknownTypeIsIgnored ==
    ValidateAnswered =>
        /\ res = validateDelivery(
                    withZones(store, SelectSeq(storedZones(store), KnownType)),
                    req.id, req.location, req.state)
        /\ res.status = 200 =>
              \A i \in DOMAIN ResultZones : KnownType(ResultZones[i])

\* C12 witness: a store that holds an active zone of an unknown type answers a
\* query with a location and a state with the other zones only
C12_Witness ==
    /\ ValidateOk
    /\ TruthyString(req.state)
    /\ req.location # Undefined
    /\ \E i \in DOMAIN storedZones(store) :
          /\ ~KnownType(storedZones(store)[i])
          /\ storedZones(store)[i].isActive # Some(FALSE)
    /\ Len(ResultZones) = 2

\* a query that carries neither a location nor a state
InvalidQuery(location, state) == location = Undefined /\ state = Undefined

\* C13: the outcome for an invalid query (neither location nor state) is
\* distinguishable from the outcome for a valid query that no zone covers: the
\* answer to the invalid query differs from the answer the store gives to every
\* valid query that none of its zones covers.
C13_InvalidQueryIsDistinguishable ==
    (ValidateAnswered /\ InvalidQuery(req.location, req.state)) =>
        \A location \in QueryLocations, state \in QueryStates :
            (~InvalidQuery(location, state)
                /\ CoveringPositions(location, state) = {})
            => validateDelivery(store, StoreId, location, state) # res

(***************************************************************************)
(* Properties of the store document under reads and writes.                *)
(***************************************************************************)
\* C14: validate-delivery is read-only: whatever the query and the outcome
\* (match, no match, failure, store not found), the step that answers it
\* leaves the store document, its zone list in its stored order and its
\* version included, as it was.
C14_ValidateDeliveryIsReadOnly ==
    [][(res = NoResponse /\ res'.route = "validate-delivery") => store' = store]_vars

\* C14 witness: after a write, an answer whose zones are in another order than
\* the stored list and carry a distance, while the stored zones carry none
C14_Witness ==
    /\ ValidateOk
    /\ store.version > 1
    /\ Len(ResultZones) = 2
    /\ Len(storedZones(store)) = 2
    /\ StoredForm(ResultZones[1]) = storedZones(store)[2]
    /\ StoredForm(ResultZones[2]) = storedZones(store)[1]
    /\ "distance" \in DOMAIN ResultZones[1]
    /\ "distance" \notin DOMAIN storedZones(store)[2]

\* the routes that write the store document
WriteRoutes == {"delivery-zones", "update-store"}

\* the routes that only read it
ReadRoutes == {"get-delivery-zones", "validate-delivery"}

DeliveryZonesStored == res.route = "delivery-zones" /\ res.status = 200

\* C17: after a delivery-zones update, no two zones of the stored zone list
\* have the same id.
C17_ZoneIdsAreUnique ==
    DeliveryZonesStored =>
        \A i, j \in DOMAIN storedZones(store) :
            i # j => storedZones(store)[i].id # storedZones(store)[j].id

\* C18: the delivery-zones update stores a list only when every zone meets the
\* numeric bounds of the data model: every stored zone has cost >= 0 and every
\* stored radius-based zone has radius > 0.
C18_StoredZonesMeetNumericBounds ==
    DeliveryZonesStored =>
        \A i \in DOMAIN storedZones(store) :
            LET z == storedZones(store)[i] IN
            /\ z.cost >= 0
            /\ z.deliveryType = "radius-based" =>
                  (z.radius # Undefined /\ ValueOf(z.radius) > 0)

(***************************************************************************)
(* Properties of requests handled at the same time.                        *)
(***************************************************************************)
\* C15: under every interleaving of validate-delivery requests and
\* delivery-zones updates, the document a request works on is the one stored
\* at the moment it loaded the store, and its answer is the resolution of that
\* document's zone list alone, whatever was stored before or is stored since.
C15_AnswerIsOfTheLoadedList ==
    [][\A c \in Clients :
          /\ (inflight[c].pc = "idle" /\ inflight'[c].pc = "loaded") =>
                inflight'[c].loaded =
                    IF inflight'[c].id = store.id THEN Some(store) ELSE Undefined
          /\ (inflight[c].pc = "loaded" /\ inflight'[c].pc = "answered"
                 /\ inflight[c].route = "validate-delivery") =>
                /\ inflight'[c].loaded = inflight[c].loaded
                /\ inflight'[c].res =
                      IF inflight[c].loaded = Undefined
                      THEN Response("validate-delivery", 404, Undefined)
                      ELSE validateDelivery(ValueOf(inflight[c].loaded), inflight[c].id,
                                            inflight[c].location, inflight[c].state)]_vars

\* C15 witness: a validate-delivery request is answered from the list it
\* loaded while an update saved since has stored a list that resolves
\* differently, and the other client has a request in flight
C15_Witness ==
    \E c, d \in Clients :
        /\ c # d
        /\ inflight[c].pc = "answered"
        /\ inflight[c].route = "validate-delivery"
        /\ inflight[c].res.status = 200
        /\ ValueOf(inflight[c].res.data).zones # <<>>
        /\ inflight[c].res #
              validateDelivery(store, inflight[c].id, inflight[c].location,
                               inflight[c].state)
        /\ inflight[d].pc = "loaded"

(***************************************************************************)
(* Properties of the reference scenario.                                   *)
(***************************************************************************)
\* the buyer's state is Rivers, letter case aside, and the buyer is more than
\* 50 km and at most 100 km from the seller
ScenarioBuyer(location, state) ==
    /\ TruthyString(state)
    /\ toLowerCase(ValueOf(state)) = toLowerCase(Rivers)
    /\ location # Undefined
    /\ LET d == calculateDistance(ValueOf(location).latitude, ValueOf(location).longitude,
                                  PortHarcourt.latitude, PortHarcourt.longitude)
       IN d > 50000 /\ d <= 100000

\* C19: on a store with the Rivers state zone (1500), the 50 km zone (1000) and
\* the 100 km zone (2000), both centred on the seller, a buyer in Rivers who is
\* more than 50 km and at most 100 km from the seller gets exactly the Rivers
\* zone and the 100 km zone, the Rivers zone first and as the cheapest option;
\* the route answers so and the script reports so for its customer.
C19_ScenarioMatchesRiversAndExtended ==
    (/\ res.route \in {"validate-delivery", "check-seller-delivery"}
     /\ req.id = store.id
     /\ ScenarioBuyer(req.location, req.state)) =>
        /\ res.status = 200
        /\ res.data # Undefined
        /\ ValueOf(res.data).available
        /\ Len(ResultZones) = 2
        /\ StoredForm(ResultZones[1]) = deliveryZones[1]
        /\ StoredForm(ResultZones[2]) = deliveryZones[3]
        /\ ValueOf(res.data).cheapestOption = Some(deliveryZones[1])
        /\ ValueOf(ValueOf(res.data).cheapestOption).cost = 1500

\* C19 witness: the script's customer, about 80.5 km from the seller, on a
\* store that holds the 100 km zone first and the Rivers zone last
C19_Witness ==
    /\ res.route = "check-seller-delivery"
    /\ res.status = 200
    /\ storedZones(store)[1] = deliveryZones[3]
    /\ storedZones(store)[3] = deliveryZones[1]
    /\ ResultZones[2].distance = 80530
    /\ ValueOf(ValueOf(res.data).cheapestOption).id = "rivers"

(***************************************************************************)
(* Properties of GET /products/nearby.                                     *)
(***************************************************************************)
\* the seller document of the collection with the given id
SellerOf(id) ==
    CHOOSE s \in {market.sellers[i] : i \in DOMAIN market.sellers} : s.id = id

\* C20: every product of a nearby answer carries a numeric distance, the
\* Haversine distance between the request's (latitude, longitude) and the
\* seller's location rounded to 0.01 km, the seller's latitude being the
\* second element and the longitude the first of the stored pair; a seller at
\* the request's own location gives the distance 0.
C20_DistanceAttachedToEveryProduct ==
    (res.route = "nearby" /\ res.status = 200) =>
        \A i \in DOMAIN ValueOf(res.data) :
            LET e == ValueOf(res.data)[i]
                coordinates == ValueOf(SellerOf(e.seller).coordinates)
            IN /\ e.distance # Undefined
               /\ ValueOf(e.distance) =
                     HalfUp(HaversineMetres[<<req.latitude, req.longitude,
                                              coordinates[2], coordinates[1]>>])

C22_AnswerEchoesSearchLocation ==
    (res.route = "nearby" /\ res.status = 200) =>
        /\ res.data # Undefined
        /\ res.pagination # Undefined
        /\ res.searchLocation =
              Some([latitude |-> req.latitude, longitude |-> req.longitude,
                    radius |-> IF req.radius = Undefined THEN DefaultRadius
                               ELSE ValueOf(req.radius)])

(***************************************************************************)
(* Properties of calculateDistance.                                        *)
(***************************************************************************)
\* x >= 0 on JavaScript numbers: false for NaN
AtLeastZero(x) == ~x.nan /\ x.metres >= 0

\* x == y on JavaScript numbers: false when either is NaN
SameNumber(x, y) == ~x.nan /\ ~y.nan /\ x.metres = y.metres

\* C23: for all valid coordinate pairs A and B the distance is at least 0,
\* the distance from A to B equals the distance from B to A, and the distance
\* from A to A is 0.
C23_DistanceIsNonNegativeSymmetric ==
    res.route = "calculateDistance" =>
        /\ AtLeastZero(res.forth)
        /\ SameNumber(res.forth, res.back)
        /\ req.A = req.B => SameNumber(res.forth, Metres(0))

(***************************************************************************)
(* Properties of the orders.                                               *)
(***************************************************************************)
\* the total quantity of product p in the orders that are not cancelled
RECURSIVE orderedQuantity(_, _)
orderedQuantity(orders, p) ==
    IF orders = <<>> THEN 0
    ELSE (IF Head(orders).status # "cancelled" THEN quantityOf(Head(orders).items, p)
          ELSE 0)
         + orderedQuantity(Tail(orders), p)

\* the stock of product p plus what the orders that are not cancelled hold of it
Held(p) == market.products[p].inventory.quantity + orderedQuantity(market.orders, p)

\* C24: for every product, inventory.quantity plus the total quantity of the
\* product in the orders that are not cancelled is the same before and after
\* every step of order creation, cancellation and status update.
C24_StockIsConserved ==
    [][\A p \in ProductIds : Held(p)' = Held(p)]_vars

\* C25: inventory.quantity of every product is at least 0 in every state,
\* whatever the carts hold and however the order requests interleave.
C25_InventoryIsNeverNegative ==
    \A p \in ProductIds : market.products[p].inventory.quantity >= 0

\* C26: a POST /orders that is answered 400 (empty cart, product not active,
\* stock smaller than the quantity) creates no order, changes no product's
\* inventory or totalSales, and leaves every cart as it was.
C26_RejectedOrderChangesNothing ==
    [][(res = NoResponse /\ res'.route = "orders" /\ res'.status = 400) =>
          /\ market'.orders = market.orders
          /\ market'.products = market.products
          /\ market'.carts = market.carts]_vars

\* an order was rejected for its stock while the buyer's cart holds two lines
C26_Witness ==
    /\ res.route = "orders"
    /\ res.status = 400
    /\ res.message = "Insufficient stock"
    /\ \E b \in Buyers : Len(market.carts[b]) = 2

\* C27: a delivery-zones update that is answered 400, 403 or 404 leaves the
\* store's stored zone list and its version exactly as they were.
C27_RejectedZonesUpdateChangesNothing ==
    [][(/\ res = NoResponse
        /\ res'.route = "delivery-zones"
        /\ res'.status \in {400, 403, 404}) =>
          /\ storedZones(store)' = storedZones(store)
          /\ store'.version = store.version]_vars

\* the owner's update of a store that already holds zones was answered 400
C27_Witness ==
    /\ res.route = "delivery-zones"
    /\ res.status = 400
    /\ req.user = Owner
    /\ req.id = StoreId
    /\ store.version = 1
    /\ storedZones(store) # <<>>

\* C28: every successful write of the store increases its version by exactly
\* 1, under any interleaving of concurrent requests, and no other step
\* changes the version; so the version is the initial version plus the number
\* of successful writes.
C28_VersionCountsSuccessfulWrites ==
    [][IF \E c \in Clients : /\ inflight[c].pc = "loaded"
                              /\ inflight[c].route = "delivery-zones"
                              /\ inflight'[c].pc = "answered"
                              /\ inflight'[c].res.status = 200
       THEN store'.version = store.version + 1
       ELSE store'.version = store.version]_vars

\* C29: once the store is soft-deleted, the public store list does not hold
\* it and the public lookup by slug answers 404, whatever publish, unpublish
\* or update requests were made since.
C29_DeletedStoreIsNotPublic ==
    ~store.isActive =>
        /\ res.route = "public-stores" =>
              \A i \in DOMAIN ValueOf(res.data) : ValueOf(res.data)[i] # store.id
        /\ res.route = "public-store" => res.status = 404

\* the zones of a resolution's answer, as a set
ZoneSet(answer) ==
    {ValueOf(answer.data).zones[i] : i \in DOMAIN ValueOf(answer.data).zones}

\* C30: for every zone list, customer location and state, the available zones
\* of the script are those of the route and the cheapest option of the script
\* is that of the route.
C30_ScriptResolvesAsTheRoute ==
    /\ res.route = "resolve-both" => res.byScript.status = res.byRoute.status
    /\ (/\ res.route = "resolve-both"
        /\ res.byRoute.status = 200
        /\ res.byScript.status = 200
        /\ res.byScript.data # Undefined) =>
          /\ ZoneSet(res.byScript) = ZoneSet(res.byRoute)
          /\ ValueOf(res.byScript.data).cheapestOption
                = ValueOf(res.byRoute.data).cheapestOption

====
